---- MODULE Spec2Model ----
(***************************************************************************)
(* A model of RCONServer (src/unnamed/part_000): the frame codec, the      *)
(* authentication handshake of handleConnection, its read loop, reply,     *)
(* closeConnection, notifyUnreplied, the interval timer and destroy.       *)
(*                                                                         *)
(* JavaScript runs one job at a time.  A step of the model is the code     *)
(* between two suspension points (await / for await) or between a call of  *)
(* this.emit and the end of the listeners it called.                       *)
(*                                                                         *)
(* The emitter (deno.land/x/eventemitter 1.2.1) is not part of the         *)
(* repository, and the server never awaits emit.  What the server's code   *)
(* can tell of an emitter is whether emit calls listeners before it        *)
(* returns, and whether an error a listener throws comes out of emit:      *)
(*   emitter = "calls":  listeners run inside the call of emit, and the    *)
(*     code after the emit runs when they have ended.  ctl is the stack of *)
(*     the calls of emit under way, innermost last: a listener may call    *)
(*     reply, closeConnection, notifyUnreplied or destroy, and the last    *)
(*     two emit in turn.  A listener ends by returning, or by an error     *)
(*     emit keeps to itself (both are the step that goes on after the      *)
(*     emit), or by an error that comes out of emit (ListenerThrows),      *)
(*     which only an emit that calls its listeners without a catch lets    *)
(*     happen.  Listeners emit runs in later jobs are, for the model, the  *)
(*     consumer acting on its own.                                         *)
(*   emitter = "defers":  emit only queues its listeners; they all run in  *)
(*     later jobs, and the code around an emit runs as one step.           *)
(*                                                                         *)
(* When a read of the loop completes, the body of the loop runs a few      *)
(* promise jobs later; jobs queued before run in between (ReadDone,        *)
(* LoopBody).                                                              *)
(*                                                                         *)
(* The transport is a byte stream: a read of the loop returns a chunk,     *)
(* which may be one frame, several frames, or a piece of one.              *)
(*                                                                         *)
(* Text is a sequence of character codes below 128 (one byte each).        *)
(***************************************************************************)
EXTENDS Integers, Sequences, FiniteSets, TLC

\* ------------------------------------------------------------ bounds
\* inputs, all together: the chunks the clients send (the first one of a
\* transport and those its read loop reads), ends of stream and failures of
\* open transports, calls the consumer makes (reply, closeConnection,
\* notifyUnreplied, destroy), errors its listeners throw and ticks of the
\* interval timer
MaxInputs == 4

\* ------------------------------------------------------------ inputs
\* resource ids of the accepted transports (conn.rid), handed out in order
Rids == {1, 2}
\* the constructor's password parameter, "pw"
Password == <<112, 119>>
\* request ids the client uses
Ids == {-1, 7}
\* bodies of the first frame: "pw", "pwx"
AuthBodies == {<<112, 119>>, <<112, 119, 120>>}
\* body of a frame a client sends after authentication: "s"
CmdBody == <<115>>
\* bodies the consumer replies with: "ok"
ReplyBodies == {<<111, 107>>}
\* type values outside the enum
OtherTypes == {5}
\* the this binding of a timer callback (the global object) and of a method call
GlobalThis == "globalThis"
Server == "server"
\* error classes, of a rejected read and of an error a listener throws:
\* BadResource, and one that stands for every other class
ErrorClasses == {"BadResource", "ConnectionReset"}
\* what emit does with the listeners of an event (see the head of the module)
Emitters == {"calls", "defers"}

\* ------------------------------------------------------------ MessageType
SERVERDATA_RESPONSE_VALUE == 0
SERVERDATA_EXECCOMMAND == 2
SERVERDATA_AUTH_RESPONSE == 2
SERVERDATA_AUTH == 3

\* ------------------------------------------------------------ Buffer
\* byte k (0 = least significant) of the 32-bit two's complement of n
ByteOf(n, k) ==
  LET p == IF k = 0 THEN 1 ELSE IF k = 1 THEN 256 ELSE IF k = 2 THEN 65536 ELSE 16777216
  IN IF n >= 0 THEN (n \div p) % 256 ELSE 255 - ((((-n) - 1) \div p) % 256)

\* buffer.writeInt32LE(n, ..): the four bytes written
writeInt32LE(n) == <<ByteOf(n, 0), ByteOf(n, 1), ByteOf(n, 2), ByteOf(n, 3)>>

\* buffer.readInt32LE(off), off counted from 0
readInt32LE(buf, off) ==
  LET b0 == buf[off + 1]
      b1 == buf[off + 2]
      b2 == buf[off + 3]
      b3 == buf[off + 4]
  IN IF b3 >= 128
       THEN -((255 - b0) + (255 - b1) * 256 + (255 - b2) * 65536 + (255 - b3) * 16777216) - 1
       ELSE b0 + b1 * 256 + b2 * 65536 + b3 * 16777216

\* Buffer.byteLength(text) of one-byte characters
byteLength(text) == Len(text)

\* buffer.toString("ascii", start, end): bytes start..end-1 (from 0), end
\* clamped to the buffer, the high bit of each byte dropped
toStringAscii(buf, start, end) ==
  LET e == IF end > Len(buf) THEN Len(buf) ELSE end
  IN IF e <= start THEN <<>> ELSE [k \in 1..(e - start) |-> buf[start + k] % 128]

\* writeMessage({id, type, body}) for a non-null id
writeMessage(id, type, body) ==
  writeInt32LE(byteLength(body) + 10) \o writeInt32LE(id) \o writeInt32LE(type)
    \o body \o <<0, 0>>

\* readResponse(buffer)
readResponse(buffer) ==
  LET size == readInt32LE(buffer, 0)
  IN [id |-> readInt32LE(buffer, 4),
      type |-> readInt32LE(buffer, 8),
      body |-> toStringAscii(buffer, 12, size + 2),
      size |-> size]

\* ------------------------------------------------------------ the client
\* A frame as the protocol lays it out (spec, Frame): what a client sends.
ClientFrame(f) ==
  writeInt32LE(4 + 4 + Len(f.body) + 2) \o writeInt32LE(f.id) \o writeInt32LE(f.type)
    \o f.body \o <<0, 0>>

\* first frames a client may send; the empty chunk is a peer that sends nothing
FirstFrames ==
  [id : {7}, type : {SERVERDATA_AUTH}, body : AuthBodies]
    \cup [id : {-1}, type : {SERVERDATA_AUTH}, body : {<<112>>}]
    \cup [id : {7}, type : {SERVERDATA_RESPONSE_VALUE, SERVERDATA_EXECCOMMAND} \cup OtherTypes,
          body : {Password}]
FirstChunks == {ClientFrame(f) : f \in FirstFrames} \cup {<<>>}

\* frames a client may send once authenticated
LoopFrames ==
  [id : Ids, type : {SERVERDATA_EXECCOMMAND}, body : {CmdBody}]
    \cup [id : {7}, type : {SERVERDATA_RESPONSE_VALUE} \cup OtherTypes, body : {CmdBody}]

\* two frames the transport delivers in one chunk: EXEC_COMMAND with id 7, then
\* EXEC_COMMAND with id -1
TwoFrames ==
  ClientFrame([id |-> 7, type |-> SERVERDATA_EXECCOMMAND, body |-> CmdBody])
    \o ClientFrame([id |-> -1, type |-> SERVERDATA_EXECCOMMAND, body |-> CmdBody])

\* a frame the transport delivers in two chunks, cut after the first byte of
\* its body "st"
CutFrame == ClientFrame([id |-> 7, type |-> SERVERDATA_EXECCOMMAND, body |-> CmdBody \o <<116>>])
CutHead == SubSeq(CutFrame, 1, Len(CutFrame) - 3)
CutRest == SubSeq(CutFrame, Len(CutFrame) - 2, Len(CutFrame))

\* chunks a read of the loop may return
LoopChunks == {ClientFrame(f) : f \in LoopFrames} \cup {TwoFrames, CutHead, CutRest}

\* ------------------------------------------------------------ the handshake's tests and frames
\* authMessage.type !== MessageType.SERVERDATA_AUTH
notAuthLax(type) == type < SERVERDATA_EXECCOMMAND
notAuth(type) == type # SERVERDATA_AUTH

\* authMessage.body !== this.password
invalidPasswordPrefix(body) ==
  ~(Len(body) >= Len(Password) /\ SubSeq(body, 1, Len(Password)) = Password)
invalidPassword(body) == body # Password

\* the empty response value sent first
emptyResponse(id) == writeMessage(id, SERVERDATA_RESPONSE_VALUE, <<>>)

\* the auth response to an invalid password
authFailedEcho(id) == writeMessage(id, SERVERDATA_AUTH_RESPONSE, <<>>)
authFailed(id) == writeMessage(-1, SERVERDATA_AUTH_RESPONSE, <<>>)

\* the auth response to the valid password
authSucceededBad(id) == writeMessage(-1, SERVERDATA_AUTH_RESPONSE, <<>>)
authSucceeded(id) == writeMessage(id, SERVERDATA_AUTH_RESPONSE, <<>>)

\* conn.read(authBuf): the first n bytes of the chunk, the rest of authBuf zero
readInto(chunk, n) == [k \in 1..n |-> IF k <= Len(chunk) THEN chunk[k] ELSE 0]

VARIABLES
  emitter,      \* the kind of emitter the server is built with
  listening,    \* this.listener is open
  timer,        \* the interval this.unrepliedInterval is set
  connections,  \* keys of this.connections (the value is the transport of that rid)
  unreplied,    \* this.unreplied: rid -> list of messages
  order,        \* the keys of this.unreplied in the order a Map iterates (insertion)
  pc,           \* where handleConnection(conn) stands, per transport
  buffer,       \* the chunk a completed read of the loop hands to the body
  authMessage,  \* handleConnection's local authMessage
  closes,       \* calls of conn.close(), per transport
  broken,       \* the transport has failed (peer reset)
  wire,         \* buffers written to the transport, in order, each with the
                \* place that wrote it: "auth", "echo" or "reply"
  wq,           \* conn.write operations issued and not yet settled, in order
  evts,         \* events emitted, per connection id, in order
  ctl,          \* the calls of emit under way, innermost last; Idle if none
  threw,        \* the events a listener of which threw an error out of emit
  ret,          \* how the consumer's latest call of reply returned
  uncaught,     \* errors nothing catches: thrown into the timer, or the
                \* rejection of a promise nobody holds
  first,        \* the chunk conn.read(authBuf) was given, as a one-element list
  ninputs       \* inputs so far (see MaxInputs)

vars == <<emitter, listening, timer, connections, unreplied, order, pc, buffer, authMessage,
          closes, broken, wire, wq, evts, ctl, threw, ret, uncaught, first, ninputs>>

\* no listener is running inside a call of emit
Idle == <<>>
NoMessage == [id |-> 0, type |-> 0, body |-> <<>>, size |-> 0]

Init ==
  /\ emitter \in Emitters
  /\ listening = TRUE
  /\ timer = TRUE
  /\ connections = {}
  /\ unreplied = <<>>
  /\ order = <<>>
  /\ pc = [c \in Rids |-> "none"]
  /\ buffer = [c \in Rids |-> <<>>]
  /\ authMessage = [c \in Rids |-> NoMessage]
  /\ closes = [c \in Rids |-> 0]
  /\ broken = [c \in Rids |-> FALSE]
  /\ wire = [c \in Rids |-> <<>>]
  /\ wq = [c \in Rids |-> <<>>]
  /\ evts = [c \in Rids |-> <<>>]
  /\ ctl = Idle
  /\ threw = {}
  /\ ret = "none"
  /\ uncaught = {}
  /\ first = [c \in Rids |-> <<>>]
  /\ ninputs = 0

\* ------------------------------------------------------------ helpers
\* this.emit(..): the event goes out; with an emitter that calls, the
\* consumer's listeners run before emit returns: Running is the innermost call
\* of emit under way, Returned the calls left when its listeners have ended
emit(c, e) == [evts EXCEPT ![c] = Append(@, e)]
Calls == emitter = "calls"
Running == ctl[Len(ctl)]
Returned == SubSeq(ctl, 1, Len(ctl) - 1)

\* Array.prototype.filter((m) => m.id !== reqId)
filterBad(list, reqId) == SelectSeq(list, LAMBDA m : m.id = reqId)
filter(list, reqId) == SelectSeq(list, LAMBDA m : m.id # reqId)

\* Map.prototype.set and Map.prototype.delete on this.unreplied
MapSet(map, k, v) == [x \in (DOMAIN map) \cup {k} |-> IF x = k THEN v ELSE map[x]]
MapDelete(map, k) == [x \in (DOMAIN map) \ {k} |-> map[x]]

\* the iteration order of a Map whose keys were in the order ord and are now
\* those of map: a deleted key goes, a new key comes last
MapKeys(ord, map) ==
  LET kept == SelectSeq(ord, LAMBDA k : k \in DOMAIN map)
      new == (DOMAIN map) \ {ord[j] : j \in 1..Len(ord)}
  IN IF new = {} THEN kept ELSE Append(kept, CHOOSE k \in new : TRUE)

\* this.unreplied.get(rid)?.push(message): nothing without a list for rid
pushFront(map, rid, message) ==
  IF rid \in DOMAIN map THEN [map EXCEPT ![rid] = <<message>> \o @] ELSE map
pushNothing(map, rid, message) == map
push(map, rid, message) ==
  IF rid \in DOMAIN map THEN [map EXCEPT ![rid] = Append(@, message)] ELSE map

\* reply after its write: const unreplied = this.unreplied.get(rid);
\* if (unreplied) this.unreplied.set(rid, unreplied.filter(..))
removeReplied(map, rid, reqId) ==
  IF rid \in DOMAIN map THEN MapSet(map, rid, filter(map[rid], reqId)) ELSE map

\* closeConnection: const conn = this.connections.get(rid); if (conn)
connFoundAlways(rid) == TRUE
connFound(rid) == rid \in connections

\* destroy: clearTimeout(this.unrepliedInterval), the interval is no longer set
clearTimeoutNot(t) == t
clearTimeout(t) == FALSE

\* closeConnection(rid): conn.close(), this.connections.delete,
\* this.emit("close", rid), this.unreplied.delete(rid).  With an emitter that
\* calls, the step ends in the emit, the listeners running, and CloseReturn
\* goes on; by tells who called: the "consumer", or handleConnection after its
\* "loop" (line 192) or in its "catch" (line 195); below: the calls of emit
\* under way when closeConnection is called
closeConnection(rid, by, below) ==
  IF connFound(rid)
    THEN /\ closes' = [closes EXCEPT ![rid] = @ + 1]
         /\ connections' = connections \ {rid}
         /\ evts' = emit(rid, [ev |-> "close"])
         /\ IF Calls
              THEN /\ ctl' = Append(below, [ev |-> "close", rid |-> rid, by |-> by])
                   /\ UNCHANGED <<unreplied, order>>
              ELSE /\ unreplied' = MapDelete(unreplied, rid)
                   /\ order' = MapKeys(order, unreplied')
                   /\ ctl' = below
    ELSE /\ ctl' = below
         /\ UNCHANGED <<closes, connections, evts, unreplied, order>>

\* where handleConnection stands after its call of closeConnection(rid)
afterClose(rid) == IF connFound(rid) /\ Calls THEN "closing" ELSE "exited"

\* where handleConnection stands when an error of class e was thrown in the
\* body of its loop (lines 183-190): for await first awaits the return() of
\* iterateReader, and the catch of line 193 gets the error in a later job
thrown(e) == IF e = "BadResource" THEN "thrown_BadResource" ELSE "thrown_other"

\* readResponse(buffer) throws a RangeError: one of its three readInt32LE reads
\* past the end of the buffer
readThrows(buf) == Len(buf) < 4 + 4 + 4

\* The buffer iterateReader hands out is a view of the one array it reads
\* into every time.  view: the bytes of such a view; after a read of chunk its
\* first bytes are those of chunk.
overwrite(view, chunk) ==
  [k \in 1..Len(view) |-> IF k <= Len(chunk) THEN chunk[k] ELSE view[k]]

\* the echo writes of the queue q whose bytes the transport has not yet taken
Untaken(q) == {k \in 1..Len(q) : q[k].kind = "echo" /\ ~q[k].taken}

\* the queue after a read of chunk, when the transport took the bytes of the
\* oldest n untaken echo writes before the read: the later ones now hold a view
\* that shows the chunk
afterRead(q, chunk, n) ==
  [k \in 1..Len(q) |->
     IF k \notin Untaken(q) THEN q[k]
     ELSE IF Cardinality({j \in Untaken(q) : j <= k}) <= n
       THEN [q[k] EXCEPT !.taken = TRUE]
       ELSE [q[k] EXCEPT !.buf = overwrite(@, chunk)]]

\* ------------------------------------------------------------ listen
\* for await (const conn of this.listener): handleConnection(conn) starts and
\* suspends in conn.read(authBuf)
Accept(c) ==
  /\ ctl = Idle
  /\ listening
  /\ pc[c] = "none"
  /\ \A d \in Rids : d < c => pc[d] # "none"
  /\ pc' = [pc EXCEPT ![c] = "auth_read"]
  /\ UNCHANGED <<emitter, listening, timer, connections, unreplied, order, buffer,
                 authMessage, closes, broken, wire, wq, evts, ctl, threw, ret, uncaught,
                 first, ninputs>>

\* ------------------------------------------------------------ handleConnection
\* the read of the first frame returns with the bytes of chunk; the type
\* check; the first write is issued
AuthRead(c, chunk) ==
  /\ ctl = Idle
  /\ pc[c] = "auth_read"
  /\ ninputs < MaxInputs
  /\ ninputs' = ninputs + 1
  /\ LET authBuf == readInto(chunk, 4 + 4 + 4 + byteLength(Password) + 2)
         m == readResponse(authBuf)
     IN /\ authMessage' = [authMessage EXCEPT ![c] = m]
        /\ first' = [first EXCEPT ![c] = <<chunk>>]
        /\ IF notAuth(m.type)
             THEN /\ closes' = [closes EXCEPT ![c] = @ + 1]
                  /\ pc' = [pc EXCEPT ![c] = "rejected"]
             ELSE /\ pc' = [pc EXCEPT ![c] = "auth_ack"]
                  /\ UNCHANGED closes
  /\ UNCHANGED <<emitter, listening, timer, connections, unreplied, order, buffer, broken,
                 wire, wq, evts, ctl, threw, ret, uncaught>>

\* the first write is done; the password check; the second write is issued
AuthAck(c) ==
  /\ ctl = Idle
  /\ pc[c] = "auth_ack"
  /\ wire' = [wire EXCEPT ![c] =
                Append(@, [by |-> "auth", buf |-> emptyResponse(authMessage[c].id)])]
  /\ pc' = [pc EXCEPT ![c] =
              IF invalidPassword(authMessage[c].body) THEN "auth_fail" ELSE "auth_ok"]
  /\ UNCHANGED <<emitter, listening, timer, connections, unreplied, order, buffer,
                 authMessage, closes, broken, wq, evts, ctl, threw, ret, uncaught, first,
                 ninputs>>

\* invalid password: the second write is done; conn.close(); return
AuthFail(c) ==
  /\ ctl = Idle
  /\ pc[c] = "auth_fail"
  /\ wire' = [wire EXCEPT ![c] =
                Append(@, [by |-> "auth", buf |-> authFailed(authMessage[c].id)])]
  /\ closes' = [closes EXCEPT ![c] = @ + 1]
  /\ pc' = [pc EXCEPT ![c] = "rejected"]
  /\ UNCHANGED <<emitter, listening, timer, connections, unreplied, order, buffer,
                 authMessage, broken, wq, evts, ctl, threw, ret, uncaught, first, ninputs>>

\* the places handleConnection awaits the transport before its try: the read
\* of line 139 and the writes of lines 149, 158 and 169
HandshakeAwaits == {"auth_read", "auth_ack", "auth_fail", "auth_ok"}

\* the transport fails and the read or write the handshake awaits rejects.
\* No try stands around it and listen() holds no promise of handleConnection:
\* handleConnection ends there, its rejection reaching nobody; the transport
\* is not closed, nothing more is written, nothing is emitted or registered.
HandshakeRejects(c) ==
  /\ ctl = Idle
  /\ pc[c] \in HandshakeAwaits
  /\ ninputs < MaxInputs
  /\ ninputs' = ninputs + 1
  /\ broken' = [broken EXCEPT ![c] = TRUE]
  /\ pc' = [pc EXCEPT ![c] = "failed"]
  /\ uncaught' = uncaught \cup {"rejection of handleConnection"}
  /\ UNCHANGED <<emitter, listening, timer, connections, unreplied, order, buffer,
                 authMessage, closes, wire, wq, evts, ctl, threw, ret, first>>

\* valid password: the second write is done; this.emit("connection", conn.rid);
\* with an emitter that calls, the listeners run now and Register goes on; with
\* one that defers, the connection is registered and the read loop suspends
\* in its first read
AuthOk(c) ==
  /\ ctl = Idle
  /\ pc[c] = "auth_ok"
  /\ wire' = [wire EXCEPT ![c] =
                Append(@, [by |-> "auth", buf |-> authSucceeded(authMessage[c].id)])]
  /\ evts' = emit(c, [ev |-> "connection"])
  /\ IF Calls
       THEN /\ ctl' = <<[ev |-> "connection", rid |-> c]>>
            /\ pc' = [pc EXCEPT ![c] = "in_connection"]
            /\ UNCHANGED <<connections, unreplied, order>>
       ELSE /\ connections' = connections \cup {c}
            /\ unreplied' = MapSet(unreplied, c, <<>>)
            /\ order' = MapKeys(order, unreplied')
            /\ pc' = [pc EXCEPT ![c] = "loop"]
            /\ UNCHANGED ctl
  /\ UNCHANGED <<emitter, listening, timer, buffer, authMessage, closes, broken, wq, threw,
                 ret, uncaught, first, ninputs>>

\* the 'connection' listeners have ended; the connection is registered; the
\* read loop suspends in its first read
Register(c) ==
  /\ ctl # Idle
  /\ Running = [ev |-> "connection", rid |-> c]
  /\ connections' = connections \cup {c}
  /\ unreplied' = MapSet(unreplied, c, <<>>)
  /\ order' = MapKeys(order, unreplied')
  /\ ctl' = Returned
  /\ pc' = [pc EXCEPT ![c] = "loop"]
  /\ UNCHANGED <<emitter, listening, timer, buffer, authMessage, closes, broken, wire, wq,
                 evts, threw, ret, uncaught, first, ninputs>>

\* a read of the loop completes on the open transport with the bytes of
\* chunk, whatever the transport had: they are in the array iterateReader
\* reads into, and the body of the loop is to run with a view of them.  taken:
\* how many of the echo writes still holding a view of that array had their
\* bytes taken by the transport before this read overwrote them.
ReadDone(c, chunk, taken) ==
  /\ ctl = Idle
  /\ pc[c] = "loop"
  /\ closes[c] = 0
  /\ ~broken[c]
  /\ ninputs < MaxInputs
  /\ taken <= Cardinality(Untaken(wq[c]))
  /\ ninputs' = ninputs + 1
  /\ wq' = [wq EXCEPT ![c] = afterRead(@, chunk, taken)]
  /\ buffer' = [buffer EXCEPT ![c] = chunk]
  /\ pc' = [pc EXCEPT ![c] = "body"]
  /\ UNCHANGED <<emitter, listening, timer, connections, unreplied, order, authMessage,
                 closes, broken, wire, evts, ctl, threw, ret, uncaught, first>>

\* the body of the loop (lines 183-190) runs with the buffer, in a job later
\* than the one that completed the read, whatever has become of the connection
\* since.  The buffer is decoded as one frame; one too short for the three
\* integers makes readResponse throw a RangeError in the body: the loop is
\* left, and the catch gets the error in a later job (Catch).  An echo write
\* is issued without a look at the transport; open tells whether conn.close()
\* had not been called by then.  After the body the loop suspends in its next
\* read.
LoopBody(c) ==
  /\ ctl = Idle
  /\ pc[c] = "body"
  /\ buffer' = [buffer EXCEPT ![c] = <<>>]
  /\ IF readThrows(buffer[c])
       THEN /\ pc' = [pc EXCEPT ![c] = thrown("RangeError")]
            /\ UNCHANGED <<evts, ctl, unreplied, wq>>
       ELSE LET message == readResponse(buffer[c])
            IN IF message.type = SERVERDATA_EXECCOMMAND
                 THEN /\ evts' = emit(c, [ev |-> "request", message |-> message])
                      /\ wq' = wq
                      /\ IF Calls
                           THEN /\ ctl' = <<[ev |-> "request", rid |-> c, message |-> message]>>
                                /\ pc' = [pc EXCEPT ![c] = "in_request"]
                                /\ UNCHANGED unreplied
                           ELSE /\ unreplied' = push(unreplied, c, message)
                                /\ pc' = [pc EXCEPT ![c] = "loop"]
                                /\ UNCHANGED ctl
                 ELSE IF message.type = SERVERDATA_RESPONSE_VALUE
                   THEN /\ wq' = [wq EXCEPT ![c] =
                                    Append(@, [kind |-> "echo", buf |-> buffer[c],
                                               taken |-> FALSE, open |-> closes[c] = 0])]
                        /\ pc' = [pc EXCEPT ![c] = "loop"]
                        /\ UNCHANGED <<evts, ctl, unreplied>>
                   ELSE /\ pc' = [pc EXCEPT ![c] = "loop"]
                        /\ UNCHANGED <<evts, ctl, unreplied, wq>>
  /\ UNCHANGED <<emitter, listening, timer, connections, order, authMessage, closes, broken,
                 wire, threw, ret, uncaught, first, ninputs>>

\* the 'request' listeners have ended;
\* this.unreplied.get(conn.rid)?.push(message); the loop suspends in its next
\* read
Push(c) ==
  /\ ctl # Idle
  /\ Running.ev = "request"
  /\ Running.rid = c
  /\ unreplied' = push(unreplied, c, Running.message)
  /\ ctl' = Returned
  /\ pc' = [pc EXCEPT ![c] = "loop"]
  /\ UNCHANGED <<emitter, listening, timer, connections, order, buffer, authMessage, closes,
                 broken, wire, wq, evts, threw, ret, uncaught, first, ninputs>>

\* iterateReader is done (the peer closed its side): closeConnection(conn.rid)
\* of line 192
LoopEof(c) ==
  /\ ctl = Idle
  /\ pc[c] = "loop"
  /\ closes[c] = 0
  /\ ~broken[c]
  /\ ninputs < MaxInputs
  /\ ninputs' = ninputs + 1
  /\ closeConnection(c, "loop", ctl)
  /\ pc' = [pc EXCEPT ![c] = afterClose(c)]
  /\ UNCHANGED <<emitter, listening, timer, buffer, authMessage, broken, wire, wq, threw,
                 ret, uncaught, first>>

\* the read rejects with an error of class e: catch (e), closeConnection only
\* for Deno.errors.BadResource (line 195).  A transport that was closed here
\* rejects the pending read with BadResource; an open one fails with any class,
\* and that failure is an input.
LoopError(c, e) ==
  /\ ctl = Idle
  /\ pc[c] = "loop"
  /\ closes[c] > 0 => e = "BadResource"
  /\ closes[c] = 0 => ninputs < MaxInputs
  /\ ninputs' = IF closes[c] = 0 THEN ninputs + 1 ELSE ninputs
  /\ IF e = "BadResource"
       THEN /\ closeConnection(c, "catch", ctl)
            /\ pc' = [pc EXCEPT ![c] = afterClose(c)]
            /\ UNCHANGED broken
       ELSE /\ broken' = [broken EXCEPT ![c] = TRUE]
            /\ pc' = [pc EXCEPT ![c] = "exited"]
            /\ UNCHANGED <<closes, connections, evts, ctl, unreplied, order>>
  /\ UNCHANGED <<emitter, listening, timer, buffer, authMessage, wire, wq, threw, ret,
                 uncaught, first>>

\* ------------------------------------------------------------ reply
\* const conn = this.connections.get(rid); if (!conn) throw
noConnectionNever(rid) == FALSE
noConnection(rid) == rid \notin connections

\* the message reply encodes
replyMessageNoBody(reqId, body) == writeMessage(reqId, SERVERDATA_RESPONSE_VALUE, <<>>)
replyMessage(reqId, body) == writeMessage(reqId, SERVERDATA_RESPONSE_VALUE, body)

\* reply(rid, reqId, body) up to its await: the lookup, the throw, the write issued.
\* The issued write carries, as `at`, the number of events emitted for rid when
\* reply was called (history, for the properties; the code keeps no such thing).
ReplyCall(rid, reqId, body) ==
  /\ ninputs < MaxInputs
  /\ ninputs' = ninputs + 1
  /\ IF noConnection(rid)
       THEN /\ ret' = "Connection not found"
            /\ UNCHANGED wq
       ELSE /\ ret' = "pending"
            /\ wq' = [wq EXCEPT ![rid] =
                        Append(@, [kind |-> "reply", reqId |-> reqId, body |-> body,
                                   buf |-> replyMessage(reqId, body),
                                   at |-> Len(evts[rid])])]
  /\ UNCHANGED <<emitter, listening, timer, connections, unreplied, order, pc, buffer,
                 authMessage, closes, broken, wire, evts, ctl, threw, uncaught, first>>

\* a write that was issued when conn.close() had been called (an echo write of
\* a body that ran after the close; reply finds no connection by then)
issuedClosed(w) == w.kind = "echo" /\ ~w.open

\* the oldest conn.write issued on c settles, ok telling whether it resolved.
\* It resolves on an open and sound transport and rejects on one that has
\* failed or was closed when the write was issued; on a transport closed since
\* the write was issued it may have gone out before the close, or not.  What
\* goes out of an echo write is what its view of the read buffer shows when
\* the transport takes it.  A failed write of reply rejects reply; a failed
\* echo write is the rejection of a promise nobody holds.  After a write of
\* reply that resolved, reply goes on: the matching messages are filtered out.
WriteDone(c, ok) ==
  /\ ctl = Idle
  /\ wq[c] # <<>>
  /\ (closes[c] = 0 /\ ~broken[c]) => ok
  /\ (broken[c] \/ issuedClosed(Head(wq[c]))) => ~ok
  /\ LET w == Head(wq[c])
     IN /\ wq' = [wq EXCEPT ![c] = Tail(@)]
        /\ wire' = IF ok THEN [wire EXCEPT ![c] = Append(@, [by |-> w.kind, buf |-> w.buf])]
                         ELSE wire
        /\ unreplied' = IF ok /\ w.kind = "reply"
                          THEN removeReplied(unreplied, c, w.reqId)
                          ELSE unreplied
        /\ uncaught' = IF ~ok /\ w.kind = "echo"
                         THEN uncaught \cup {"rejection of an echo write"}
                         ELSE uncaught
  /\ order' = MapKeys(order, unreplied')
  /\ UNCHANGED <<emitter, listening, timer, connections, pc, buffer, authMessage, closes,
                 broken, evts, ctl, threw, ret, first, ninputs>>

\* ------------------------------------------------------------ closeConnection
\* the consumer calls closeConnection(rid), from a job of its own or from a
\* listener that is running
CloseConnection(rid) ==
  /\ ninputs < MaxInputs
  /\ ninputs' = ninputs + 1
  /\ closeConnection(rid, "consumer", ctl)
  /\ UNCHANGED <<emitter, listening, timer, pc, buffer, authMessage, broken, wire, wq,
                 threw, ret, uncaught, first>>

\* the 'close' listeners have ended: closeConnection goes on with
\* this.unreplied.delete(rid) and returns, to the consumer or to
\* handleConnection, which returns too
CloseReturn(rid) ==
  /\ ctl # Idle
  /\ Running.ev = "close"
  /\ Running.rid = rid
  /\ unreplied' = MapDelete(unreplied, rid)
  /\ order' = MapKeys(order, unreplied')
  /\ ctl' = Returned
  /\ pc' = IF Running.by = "consumer" THEN pc ELSE [pc EXCEPT ![rid] = "exited"]
  /\ UNCHANGED <<emitter, listening, timer, connections, buffer, authMessage, closes,
                 broken, wire, wq, evts, threw, ret, uncaught, first, ninputs>>

\* ------------------------------------------------------------ notifyUnreplied
\* the outer loop of notifyUnreplied over the entries of the map that come
\* next, keys: what is left of keys from the first one that is still in the
\* map and has a message
RECURSIVE toReport(_)
toReport(keys) ==
  IF keys = <<>> THEN <<>>
  ELSE IF Head(keys) \in DOMAIN unreplied /\ unreplied[Head(keys)] # <<>> THEN keys
  ELSE toReport(Tail(keys))

\* this.emit("unreplied", rid, message) for the first of messages, the inner
\* loop standing there while the listeners run; rest: the keys still to visit
report(rid, messages, rest, below) ==
  /\ evts' = emit(rid, [ev |-> "unreplied", message |-> Head(messages)])
  /\ ctl' = Append(below, [ev |-> "unreplied", rid |-> rid, todo |-> Tail(messages),
                          rest |-> rest])

\* the inner loop run to its end when no listener comes in between: the events
\* ev with one 'unreplied' event more for each of messages
RECURSIVE reportAll(_, _, _)
reportAll(ev, rid, messages) ==
  IF messages = <<>> THEN ev
  ELSE reportAll([ev EXCEPT ![rid] = Append(@, [ev |-> "unreplied", message |-> Head(messages)])],
                 rid, Tail(messages))

\* both loops run to their end when no listener comes in between
RECURSIVE sweep(_, _)
sweep(ev, keys) ==
  IF keys = <<>> THEN ev
  ELSE sweep(reportAll(ev, Head(keys), unreplied[Head(keys)]), Tail(keys))

\* notifyUnreplied run with `this` bound to self.  Only the server has the
\* map; on any other object this.unreplied is undefined and the for..of throws
\* a TypeError.
notifyThrows(self) == self # Server
notifyUnreplied(self) ==
  IF notifyThrows(self)
    THEN /\ uncaught' = uncaught \cup {"TypeError in timer"}
         /\ UNCHANGED <<evts, ctl>>
    ELSE /\ uncaught' = uncaught
         /\ IF Calls
              THEN LET keys == toReport(order)
                   IN IF keys = <<>>
                        THEN UNCHANGED <<evts, ctl>>
                        ELSE report(Head(keys), unreplied[Head(keys)], Tail(keys), ctl)
              ELSE /\ evts' = sweep(evts, order)
                   /\ UNCHANGED ctl

\* setInterval(this.notifyUnreplied, 60 * 1000): the timer calls the function
\* it was given, detached from the server
TimerThis == GlobalThis

SweeperTick ==
  /\ ctl = Idle
  /\ timer
  /\ ninputs < MaxInputs
  /\ ninputs' = ninputs + 1
  /\ notifyUnreplied(TimerThis)
  /\ UNCHANGED <<emitter, listening, timer, connections, unreplied, order, pc, buffer,
                 authMessage, closes, broken, wire, wq, threw, ret, first>>

\* the consumer calls server.notifyUnreplied(), from a job of its own or from
\* a listener that is running
NotifyUnreplied ==
  /\ ninputs < MaxInputs
  /\ ninputs' = ninputs + 1
  /\ notifyUnreplied(Server)
  /\ UNCHANGED <<emitter, listening, timer, connections, unreplied, order, pc, buffer,
                 authMessage, closes, broken, wire, wq, threw, ret, first>>

\* the 'unreplied' listeners have ended: the loops of notifyUnreplied go on,
\* with the next message of the array they stand in, then with the next entry
\* of the map, and notifyUnreplied returns when there is none
NotifyNext ==
  /\ ctl # Idle
  /\ Running.ev = "unreplied"
  /\ IF Running.todo # <<>>
       THEN report(Running.rid, Running.todo, Running.rest, Returned)
       ELSE LET keys == toReport(Running.rest)
            IN IF keys = <<>>
                 THEN /\ ctl' = Returned
                      /\ UNCHANGED evts
                 ELSE report(Head(keys), unreplied[Head(keys)], Tail(keys), Returned)
  /\ UNCHANGED <<emitter, listening, timer, connections, unreplied, order, pc, buffer,
                 authMessage, closes, broken, wire, wq, threw, ret, uncaught, first, ninputs>>

\* ------------------------------------------------------------ a listener throws
\* the innermost call of emit is one handleConnection made: of 'connection',
\* of 'request', or of 'close' in its own call of closeConnection
byHandleConnection(call) ==
  \/ call.ev \in {"connection", "request"}
  \/ call.ev = "close" /\ call.by # "consumer"

\* the emit stands outside the try of handleConnection: line 177 before it,
\* line 195 inside its catch; an error out of there rejects handleConnection
outsideTry(call) ==
  \/ call.ev = "connection"
  \/ call.ev = "close" /\ call.by = "catch"

\* the emit stands inside the try: line 185, and line 209 reached from line
\* 192; an error out of there goes to the catch of line 193
insideTry(call) == byHandleConnection(call) /\ ~outsideTry(call)

\* the emit stands in the body of the loop, line 185: an error out of there
\* leaves the for await, which awaits the return() of iterateReader before
\* the error goes on to the catch
inLoopBody(call) == call.ev = "request"

\* a listener of the innermost call of emit throws an error of class e and
\* emit lets it out: the code after that emit is skipped (the registration of
\* lines 178-179, the push of line 186, this.unreplied.delete of line 210, the
\* rest of the loops of notifyUnreplied).  The error goes to the caller: the
\* listener below, which runs on, the consumer's job, or handleConnection.
\* Out of the emit of line 185 it leaves the loop, and the job ends there, no
\* listener running: the catch runs in a later job (Catch).  Out of the emit
\* of closeConnection called at line 192, behind the loop, it reaches the
\* catch in the same job: a BadResource (what a second destroy() throws, or a
\* write on a closed transport) makes it call closeConnection(conn.rid), line
\* 195, any other error is dropped, and handleConnection returns.  When the
\* emit stood outside the try, handleConnection rejects, reaching nobody.  The
\* class matters to the catch alone; elsewhere one class stands for all.
ListenerThrows(e) ==
  /\ Calls
  /\ ctl # Idle
  /\ ninputs < MaxInputs
  /\ ~insideTry(Running) => e = "BadResource"
  /\ ninputs' = ninputs + 1
  /\ threw' = threw \cup {[ev |-> Running.ev, rid |-> Running.rid]}
  /\ IF inLoopBody(Running)
       THEN /\ ctl' = Returned
            /\ pc' = [pc EXCEPT ![Running.rid] = thrown(e)]
            /\ UNCHANGED <<connections, unreplied, order, closes, evts, uncaught>>
       ELSE IF insideTry(Running) /\ e = "BadResource"
         THEN /\ closeConnection(Running.rid, "catch", Returned)
              /\ pc' = [pc EXCEPT ![Running.rid] = afterClose(Running.rid)]
              /\ UNCHANGED uncaught
         ELSE /\ ctl' = Returned
              /\ pc' = IF byHandleConnection(Running)
                         THEN [pc EXCEPT ![Running.rid] =
                                 IF outsideTry(Running) THEN "failed" ELSE "exited"]
                         ELSE pc
              /\ uncaught' = IF byHandleConnection(Running) /\ outsideTry(Running)
                               THEN uncaught \cup {"rejection of handleConnection"}
                               ELSE uncaught
              /\ UNCHANGED <<connections, unreplied, order, closes, evts>>
  /\ UNCHANGED <<emitter, listening, timer, buffer, authMessage, broken, wire, wq, ret,
                 first>>

\* the error thrown in the body of the loop of c reaches the catch, in a job
\* of its own, whatever has become of the connection since: closeConnection
\* for a BadResource (line 195), nothing for any other error, and
\* handleConnection returns
Catch(c) ==
  /\ ctl = Idle
  /\ pc[c] \in {thrown("BadResource"), thrown("RangeError")}
  /\ IF pc[c] = thrown("BadResource")
       THEN /\ closeConnection(c, "catch", ctl)
            /\ pc' = [pc EXCEPT ![c] = afterClose(c)]
       ELSE /\ pc' = [pc EXCEPT ![c] = "exited"]
            /\ UNCHANGED <<closes, connections, evts, ctl, unreplied, order>>
  /\ UNCHANGED <<emitter, listening, timer, buffer, authMessage, broken, wire, wq, threw,
                 ret, uncaught, first, ninputs>>

\* ------------------------------------------------------------ destroy
\* the consumer calls destroy(), from a job of its own or from a listener
\* that is running
Destroy ==
  /\ ninputs < MaxInputs
  /\ ninputs' = ninputs + 1
  /\ listening
  /\ listening' = FALSE
  /\ timer' = clearTimeout(timer)
  /\ UNCHANGED <<emitter, connections, unreplied, order, pc, buffer, authMessage, closes,
                 broken, wire, wq, evts, ctl, threw, ret, uncaught, first>>

\* ------------------------------------------------------------ the system
Next ==
  \/ \E c \in Rids : Accept(c)
  \/ \E c \in Rids, chunk \in FirstChunks : AuthRead(c, chunk)
  \/ \E c \in Rids : AuthAck(c)
  \/ \E c \in Rids : AuthFail(c)
  \/ \E c \in Rids : AuthOk(c)
  \/ \E c \in Rids : HandshakeRejects(c)
  \/ \E c \in Rids : Register(c)
  \/ \E c \in Rids, chunk \in LoopChunks, taken \in 0..MaxInputs : ReadDone(c, chunk, taken)
  \/ \E c \in Rids : LoopBody(c)
  \/ \E c \in Rids : Push(c)
  \/ \E c \in Rids : LoopEof(c)
  \/ \E c \in Rids, e \in ErrorClasses : LoopError(c, e)
  \/ \E rid \in Rids, reqId \in Ids, body \in ReplyBodies : ReplyCall(rid, reqId, body)
  \/ \E c \in Rids, ok \in BOOLEAN : WriteDone(c, ok)
  \/ \E rid \in Rids : CloseConnection(rid)
  \/ \E rid \in Rids : CloseReturn(rid)
  \/ SweeperTick
  \/ NotifyUnreplied
  \/ NotifyNext
  \/ \E e \in ErrorClasses : ListenerThrows(e)
  \/ \E c \in Rids : Catch(c)
  \/ Destroy

Spec == Init /\ [][Next]_vars

\* the steps the server takes on c by itself, jobs the event loop runs once
\* they are ready: handleConnection going on after an awaited write of the
\* handshake, after a read of the loop, after the listeners of an emit have
\* ended and after an error thrown in the loop, closeConnection going on after its emit, and a write that was
\* issued settling, one way or the other
ServerStep(c) ==
  \/ AuthAck(c) \/ AuthFail(c) \/ AuthOk(c)
  \/ Register(c) \/ LoopBody(c) \/ Push(c) \/ Catch(c)
  \/ CloseReturn(c)
  \/ \E ok \in BOOLEAN : WriteDone(c, ok)

\* the server with its event loop running: a job that is ready is run.  What
\* the clients, the transports' faults, the timer and the consumer do stays
\* free.
FairSpec == Spec /\ WF_vars(NotifyNext) /\ \A c \in Rids : WF_vars(ServerStep(c))


\* ============================================================ properties
\* A frame as it must appear on the wire, by the protocol's layout
Frame(id, type, body) == ClientFrame([id |-> id, type |-> type, body |-> body])
Written(by, id, type, body) == [by |-> by, buf |-> Frame(id, type, body)]

HasId(list, i) == \E k \in 1..Len(list) : list[k].id = i
IsPrefix(a, b) == Len(a) <= Len(b) /\ SubSeq(b, 1, Len(a)) = a
Emitted(c, ev) == {k \in 1..Len(evts[c]) : evts[c][k].ev = ev}
Requests(c, i) == {k \in Emitted(c, "request") : evts[c][k].message.id = i}
ReplyFrames(c, i) ==
  {k \in 1..Len(wire[c]) : wire[c][k].by = "reply" /\ readResponse(wire[c][k].buf).id = i}
AllReplyFrames(c) == {k \in 1..Len(wire[c]) : wire[c][k].by = "reply"}
\* the frames on the wire of c behind the two of the handshake that are, by
\* their bytes, RESPONSE_VALUE frames with id i
ValueFrames(c, i) ==
  {k \in 3..Len(wire[c]) :
     /\ readResponse(wire[c][k].buf).type = SERVERDATA_RESPONSE_VALUE
     /\ readResponse(wire[c][k].buf).id = i}

\* the frame the client sent first on c is f
FirstIs(c, f) == first[c] = <<ClientFrame(f)>>

\* the first frames by what the gate must do with them
GoodAuthFrames == {f \in FirstFrames : f.type = SERVERDATA_AUTH /\ f.body = Password}
BadAuthFrames == {f \in FirstFrames : f.type = SERVERDATA_AUTH /\ f.body # Password}
NonAuthChunks == {ClientFrame(f) : f \in {g \in FirstFrames : g.type # SERVERDATA_AUTH}}

\* this step settles the oldest write on c, a write of reply, on a transport
\* that is open and sound
ReplySettledOk(c) ==
  /\ wq[c] # <<>>
  /\ Head(wq[c]).kind = "reply"
  /\ wq'[c] = Tail(wq[c])
  /\ closes[c] = 0
  /\ ~broken[c]

\* this step settles the oldest write on c, a write of reply
ReplySettles(c) ==
  /\ wq[c] # <<>>
  /\ Head(wq[c]).kind = "reply"
  /\ wq'[c] = Tail(wq[c])

\* this step completes a teardown of c: closeConnection(c) has closed the
\* transport, taken c out of the registry and emitted 'close', and c goes out
\* of the unreplied map, in the same step or, with an emitter that calls, when
\* the 'close' listeners have ended
Teardown(c) ==
  /\ c \notin connections'
  /\ c \notin DOMAIN unreplied'
  /\ closes'[c] = 1
  /\ Emitted(c, "close")' # {}
  /\ IF Calls
       THEN ctl # Idle /\ Running.ev = "close" /\ Running.rid = c /\ ctl' = Returned
       ELSE c \in connections

\* a read of the loop of c completes with chunk in this step
Reads(c, chunk) == \E taken \in 0..MaxInputs : ReadDone(c, chunk, taken)

\* the body of the loop of c runs with chunk in this step
Handles(c, chunk) == buffer[c] = chunk /\ LoopBody(c)

\* the event of the request the frame f carries
RequestOf(f) == [ev |-> "request", message |-> [id |-> f.id, type |-> f.type, body |-> f.body,
                                                size |-> 10 + Len(f.body)]]

\* no error of a listener has come out of emit in this step
NoThrow == ~\E e \in ErrorClasses : ListenerThrows(e)

\* the message the protocol's frame f carries
Decoded(f) == [id |-> f.id, type |-> f.type, body |-> f.body, size |-> 10 + Len(f.body)]

\* The frames of a chunk by the protocol's layout: size, id, type, body of
\* size - 10 bytes, two null bytes, one frame after the other; bytes that do not
\* make a whole frame are the beginning of a frame still to come.
RECURSIVE FramesIn(_)
FramesIn(chunk) ==
  IF Len(chunk) < 4 THEN <<>>
  ELSE LET size == readInt32LE(chunk, 0)
       IN IF size < 10 \/ Len(chunk) < 4 + size THEN <<>>
          ELSE <<[id |-> readInt32LE(chunk, 4), type |-> readInt32LE(chunk, 8),
                  body |-> SubSeq(chunk, 13, 2 + size)]>>
                 \o FramesIn(SubSeq(chunk, 5 + size, Len(chunk)))

\* the listener the server itself called, the outermost one running, is the
\* 'request' listener of c, or its 'connection' listener
InRequestListener(c) == ctl # Idle /\ ctl[1].ev = "request" /\ ctl[1].rid = c
InConnectionListener(c) == ctl # Idle /\ ctl[1] = [ev |-> "connection", rid |-> c]

\* ------------------------------------------------------------ C1
\* the step after which the iteration of the loop of c that dispatched a
\* request is over: the listeners of that call of emit have ended
AfterRequest(c) == pc[c] = "in_request" /\ pc'[c] # "in_request"

\* the reply of the write that settles on c in this step did what C1 says
Replied(c) ==
  LET w == Head(wq[c])
  IN /\ wire'[c] = Append(wire[c],
                          Written("reply", w.reqId, SERVERDATA_RESPONSE_VALUE, w.body))
     /\ \A d \in Rids \ {c} : wire'[d] = wire[d]
     /\ c \in DOMAIN unreplied'
     /\ ~HasId(unreplied'[c], w.reqId)

\* C1: request/reply correlation.  Every EXEC_COMMAND frame with id i read on a
\* registered c is dispatched with that id and, once its loop iteration is
\* over, a registered c has an unreplied entry with id i; a reply(c, i, body)
\* that completes on a sound transport has written exactly one RESPONSE_VALUE
\* frame with id i and that body, to c only, and leaves no entry with id i in
\* c's unreplied list.
C1_Correlation ==
  [][ /\ \A c \in Rids, chunk \in LoopChunks :
           (Handles(c, chunk) /\ c \in connections)
             => \A k \in 1..Len(FramesIn(chunk)) :
                  FramesIn(chunk)[k].type = SERVERDATA_EXECCOMMAND
                    => /\ \E n \in (Len(evts[c]) + 1)..Len(evts'[c]) :
                            /\ evts'[c][n].ev = "request"
                            /\ evts'[c][n].message.id = FramesIn(chunk)[k].id
                       /\ ~Calls => HasId(unreplied'[c], FramesIn(chunk)[k].id)
      /\ \A c \in Rids :
           (AfterRequest(c) /\ c \in connections')
             => /\ c \in DOMAIN unreplied'
                /\ HasId(unreplied'[c], ctl[1].message.id)
      /\ \A c \in Rids : ReplySettledOk(c) => Replied(c)
    ]_vars

\* The part of C1 the code keeps: the correlation holds of a frame that is
\* alone in the chunk a read returns, when the listeners of its 'request'
\* event end without an error that comes out of emit, and of every reply.
CorrelationOfWholeChunks ==
  [][ /\ \A c \in Rids, f \in LoopFrames :
           (Handles(c, ClientFrame(f)) /\ f.type = SERVERDATA_EXECCOMMAND)
             => /\ evts'[c] = Append(evts[c], RequestOf(f))
                /\ Calls => ctl' = <<[ev |-> "request", rid |-> c, message |-> Decoded(f)]>>
                /\ (~Calls /\ c \in connections)
                     => unreplied'[c] = Append(unreplied[c], Decoded(f))
      /\ \A c \in Rids :
           (AfterRequest(c) /\ NoThrow /\ c \in connections')
             => /\ c \in DOMAIN unreplied'
                /\ HasId(unreplied'[c], ctl[1].message.id)
      /\ \A c \in Rids : ReplySettledOk(c) => Replied(c)
    ]_vars

\* ------------------------------------------------------------ C2
ValidAuth(c) == \E f \in GoodAuthFrames : FirstIs(c, f)

\* c is registered, or has events, or its read loop was entered, or something
\* other than the handshake wrote, or is about to write, to it
PastGate(c) ==
  \/ c \in connections
  \/ c \in DOMAIN unreplied
  \/ Emitted(c, "connection") # {}
  \/ Emitted(c, "request") # {}
  \/ pc[c] \in {"in_connection", "loop", "body", "in_request", "closing", "exited",
              thrown("BadResource"), thrown("RangeError")}
  \/ buffer[c] # <<>>
  \/ wq[c] # <<>>
  \/ \E k \in 1..Len(wire[c]) : wire[c][k].by # "auth"

\* C2: the authentication gate.  In every reachable state a connection is
\* registered, has an unreplied list, has had a 'connection' or 'request' event,
\* or has had a frame after the first read or dispatched, only if its first
\* frame was an AUTH frame whose body is the configured password.
C2_AuthGate == \A c \in Rids : PastGate(c) => ValidAuth(c)

\* an authenticated connection on which a request was dispatched
C2_Witness ==
  \E c \in connections : ValidAuth(c) /\ Emitted(c, "request") # {} /\ unreplied[c] # <<>>

\* ------------------------------------------------------------ C3
\* C3: authentication failure.  After a first frame AUTH with id k and a body
\* other than the password the server writes the RESPONSE_VALUE frame (id k,
\* empty body), then the AUTH_RESPONSE frame (id -1, empty body), nothing
\* else, then closes the transport once, not before both are written; the
\* connection is never registered and no event is emitted for it.  Only a
\* transport that fails under one of the two writes ends the sequence early.
C3_AuthFailure ==
  \A c \in Rids, f \in BadAuthFrames :
    FirstIs(c, f)
      => LET expected == <<Written("auth", f.id, SERVERDATA_RESPONSE_VALUE, <<>>),
                           Written("auth", -1, SERVERDATA_AUTH_RESPONSE, <<>>)>>
         IN /\ pc[c] \in {"auth_ack", "auth_fail", "rejected", "failed"}
            /\ pc[c] = "auth_ack" => wire[c] = <<>>
            /\ pc[c] = "auth_fail" => wire[c] = SubSeq(expected, 1, 1)
            /\ pc[c] = "rejected" => wire[c] = expected
            /\ pc[c] = "failed" => broken[c] /\ wire[c] \in {<<>>, SubSeq(expected, 1, 1)}
            /\ closes[c] = IF pc[c] = "rejected" THEN 1 ELSE 0
            /\ wq[c] = <<>>
            /\ c \notin connections
            /\ c \notin DOMAIN unreplied
            /\ evts[c] = <<>>

\* a handshake with a wrong password and client id 7 has run to its end
C3_Witness ==
  \E c \in Rids, f \in BadAuthFrames :
    /\ FirstIs(c, f)
    /\ f.id = 7
    /\ pc[c] = "rejected"
    /\ Len(wire[c]) = 2
    /\ closes[c] = 1

\* ------------------------------------------------------------ C4
\* the handshake of c was ended by its transport: a write it awaited rejected
Aborted(c) == pc[c] = "failed" /\ broken[c]

\* an error of a 'connection' listener of c came out of emit, line 177
ConnectionListenerThrew(c) == [ev |-> "connection", rid |-> c] \in threw

C4_State(c, f) ==
  LET expected == <<Written("auth", f.id, SERVERDATA_RESPONSE_VALUE, <<>>),
                    Written("auth", f.id, SERVERDATA_AUTH_RESPONSE, <<>>)>>
      before == pc[c] \in {"auth_ack", "auth_ok"} \/ Aborted(c)
  IN /\ pc[c] \notin {"none", "auth_read", "auth_fail", "rejected"}
     /\ pc[c] = "auth_ack" => wire[c] = <<>>
     /\ pc[c] = "auth_ok" => wire[c] = SubSeq(expected, 1, 1)
     /\ Aborted(c) => wire[c] \in {<<>>, SubSeq(expected, 1, 1)}
     /\ ~before => IsPrefix(expected, wire[c])
     /\ Cardinality(Emitted(c, "connection")) = IF before THEN 0 ELSE 1
     /\ pc[c] = "failed"
          => Aborted(c) \/ ConnectionListenerThrew(c) \/ [ev |-> "close", rid |-> c] \in threw
     /\ ConnectionListenerThrew(c) => pc[c] = "failed"
     /\ (before \/ pc[c] = "in_connection" \/ ConnectionListenerThrew(c))
          => /\ closes[c] = 0
             /\ Emitted(c, "request") = {}
             /\ Len(wire[c]) <= 2
             /\ wq[c] = <<>>
             /\ buffer[c] = <<>>
             /\ c \notin DOMAIN unreplied

\* C4: authentication success.  After a first frame AUTH with id k and the
\* password the server writes the RESPONSE_VALUE frame (id k, empty body), then
\* the AUTH_RESPONSE frame (id k, empty body); the transport is open; exactly
\* one 'connection' event is emitted; and whenever the read loop waits for,
\* holds, or dispatches a frame on the open transport the connection is
\* registered, its unreplied list being empty until the first request is
\* read.  The sequence ends early only when the transport fails under one of
\* the two writes, and after the event only when a 'connection' listener
\* throws an error that comes out of emit: no frame is read then.
C4_AuthSuccess ==
  \A c \in Rids, f \in GoodAuthFrames :
    FirstIs(c, f)
      => /\ C4_State(c, f)
         /\ (pc[c] \in {"loop", "body", "in_request"} /\ closes[c] = 0)
              => c \in connections /\ c \in DOMAIN unreplied
         /\ (pc[c] = "loop" /\ closes[c] = 0 /\ Emitted(c, "request") = {})
              => unreplied[c] = <<>>

\* a connection just registered: two frames written, open, nothing pending
C4_Witness ==
  \E c \in connections :
    /\ pc[c] = "loop"
    /\ ValidAuth(c)
    /\ Len(wire[c]) = 2
    /\ closes[c] = 0
    /\ unreplied[c] = <<>>
    /\ Cardinality(Emitted(c, "connection")) = 1

\* ------------------------------------------------------------ C5
NonAuthFirst(c) == first[c] # <<>> /\ first[c][1] \in NonAuthChunks

\* C5: protocol violation.  On a first frame whose type is not AUTH (0, 2 or
\* another value) the server closes the transport without writing a frame,
\* emits no event and leaves the registry and the unreplied map as they were;
\* nothing is written, emitted or registered for that connection afterwards.
C5_ProtocolViolation ==
  [][\A c \in Rids :
       NonAuthFirst(c)'
         => /\ pc'[c] = "rejected"
            /\ wire'[c] = <<>>
            /\ wq'[c] = <<>>
            /\ closes'[c] = 1
            /\ evts'[c] = <<>>
            /\ c \notin connections'
            /\ c \notin DOMAIN unreplied'
            /\ pc[c] = "auth_read" => UNCHANGED <<connections, unreplied, evts, wire, wq>>
    ]_vars

\* a first frame of type 2 was rejected
C5_Witness ==
  \E c \in Rids, f \in FirstFrames :
    /\ FirstIs(c, f)
    /\ f.type = SERVERDATA_EXECCOMMAND
    /\ pc[c] = "rejected"
    /\ closes[c] = 1

\* ------------------------------------------------------------ C6
\* C6: reply(c, i, body) with c not in the registry (never registered, or torn
\* down) fails with 'Connection not found', issues no write to any transport
\* and leaves the registry and every unreplied list as they were.
C6_ReplyNotFound ==
  [][\A rid \in Rids, reqId \in Ids, body \in ReplyBodies :
       (ReplyCall(rid, reqId, body) /\ rid \notin connections)
         => /\ ret' = "Connection not found"
            /\ UNCHANGED <<wire, wq, connections, unreplied, evts, closes>>
    ]_vars

\* reply failed while one connection was torn down and the other never registered
C6_Witness ==
  /\ ret = "Connection not found"
  /\ connections = {}
  /\ \E c \in Rids : Emitted(c, "close") # {}
  /\ \A c \in Rids : wq[c] = <<>> /\ AllReplyFrames(c) = {}

\* ------------------------------------------------------------ C7
\* the transport of c is open: the server has not closed it and it has not
\* failed
Open(c) == closes[c] = 0 /\ ~broken[c]

\* C7 as stated, first half: a request received on a connection is answered
\* by no more than one RESPONSE_VALUE frame bearing its id, whatever calls of
\* reply the consumer makes.
C7_AtMostOneReplyFrame ==
  \A c \in Rids, i \in Ids :
    Cardinality(Requests(c, i)) = 1 => Cardinality(ValueFrames(c, i)) <= 1

\* C7 as stated, second half: a request received on a connection that stays
\* open is eventually answered, a RESPONSE_VALUE frame bearing its id being
\* written to the connection.  Said of the runs in which inputs are left to
\* the end (ninputs < MaxInputs), so that the consumer could always still
\* call reply: a run that refutes it ends with the server waiting, the
\* request pending, and a consumer that does not reply.
C7_EventuallyAnswered ==
  \A c \in Rids, i \in Ids :
    (Requests(c, i) # {}) ~> (ValueFrames(c, i) # {} \/ ~Open(c) \/ ninputs = MaxInputs)

\* this step settles the oldest write on c, an echo write of the read loop
EchoSettles(c) ==
  /\ wq[c] # <<>>
  /\ Head(wq[c]).kind = "echo"
  /\ wq'[c] = Tail(wq[c])

\* C7, amended: reply does not look at the unreplied list before it writes.
\* A call of reply issues one write, pending request or not; the write, when
\* it settles, puts on the wire the one RESPONSE_VALUE frame with the id and
\* body reply was given, or nothing, and on an open and sound transport it
\* puts the frame.  The server answers no request by itself: behind the
\* handshake a RESPONSE_VALUE frame with id i gets on the wire only as the
\* frame of a reply the consumer called with i, or as an echo write of the
\* read loop (line 189), which needs no call of reply.  A request is answered
\* by as many frames as that, and by none while neither happens.
C7_OneFramePerReply ==
  [][\A c \in Rids :
       /\ ReplySettles(c)
            => \/ wire'[c] = wire[c]
               \/ /\ Len(wire'[c]) = Len(wire[c]) + 1
                  /\ SubSeq(wire'[c], 1, Len(wire[c])) = wire[c]
                  /\ wire'[c][Len(wire'[c])].buf =
                       Frame(Head(wq[c]).reqId, SERVERDATA_RESPONSE_VALUE, Head(wq[c]).body)
       /\ ReplySettledOk(c) => wire'[c] # wire[c]
       /\ \A i \in Ids :
            ValueFrames(c, i)' # ValueFrames(c, i)
              => /\ ValueFrames(c, i)' = ValueFrames(c, i) \cup {Len(wire[c]) + 1}
                 /\ \/ ReplySettles(c) /\ Head(wq[c]).reqId = i
                    \/ EchoSettles(c) /\ wire'[c][Len(wire'[c])].buf = Head(wq[c]).buf
       /\ (ReplyCall(c, 7, <<111, 107>>) /\ c \in connections)
            => /\ wq'[c] = Append(wq[c], [kind |-> "reply", reqId |-> 7, body |-> <<111, 107>>,
                                              buf |-> Frame(7, SERVERDATA_RESPONSE_VALUE, <<111, 107>>),
                                              at |-> Len(evts[c])])
                  /\ UNCHANGED <<wire, unreplied>>
    ]_vars

\* one request with id 7 on c, answered by two frames with id 7, each the
\* frame of a reply
C7_Witness ==
  \E c \in Rids :
    /\ Cardinality(Requests(c, 7)) = 1
    /\ Cardinality(ValueFrames(c, 7)) = 2
    /\ Cardinality(ReplyFrames(c, 7)) = 2

\* ------------------------------------------------------------ C8
\* C8: every tick of the timer the constructor installs reports the messages
\* of the unreplied lists, one 'unreplied' event each: when there is a message
\* to report, the tick emits the event of the first one and goes on from there.
C8_SweeperReports ==
  [][SweeperTick
       => LET keys == toReport(order)
          IN keys # <<>>
               => IsPrefix(Append(evts[Head(keys)],
                                  [ev |-> "unreplied", message |-> unreplied[Head(keys)][1]]),
                           evts'[Head(keys)])
    ]_vars

\* ------------------------------------------------------------ C9
\* this step settles the oldest write on c, a write of reply, and the write
\* has resolved: its frame went out
ReplyResolves(c) == ReplySettles(c) /\ Len(wire'[c]) = Len(wire[c]) + 1

\* C9: an entry of c's unreplied list goes away only in a teardown of c or when
\* the write of a reply on c resolves, and then exactly the entries with that
\* reply's id go; every other step (a timer tick, a call of notifyUnreplied,
\* an echoed or ignored frame, a reply with another id or on another
\* connection, a reply whose write fails, destroy) keeps c's entries, in
\* order.
C9_PendingPersists ==
  [][\A c \in Rids :
       (c \in DOMAIN unreplied /\ unreplied[c] # <<>>)
         => \/ Teardown(c)
            \/ /\ ReplyResolves(c)
               /\ c \in DOMAIN unreplied'
               /\ unreplied'[c] = SelectSeq(unreplied[c], LAMBDA x : x.id # Head(wq[c]).reqId)
            \/ /\ c \in DOMAIN unreplied'
               /\ IsPrefix(unreplied[c], unreplied'[c])
    ]_vars

\* the request with id 7 is still pending on c after a reply with id -1 was
\* written to c
C9_Witness ==
  \E c \in connections :
    /\ HasId(unreplied[c], 7)
    /\ ReplyFrames(c, -1) # {}

\* ------------------------------------------------------------ C10
\* this step ends the read loop of c, waiting in a read: end of stream or a
\* read that fails
LoopEnds(c) == pc[c] = "loop" /\ pc'[c] \in {"closing", "exited"}

\* what a step leaves alone of connection b
Untouched(b) ==
  /\ (b \in connections) = (b \in connections')
  /\ (b \in DOMAIN unreplied) = (b \in DOMAIN unreplied')
  /\ b \in DOMAIN unreplied => unreplied'[b] = unreplied[b]
  /\ buffer'[b] = buffer[b]
  /\ evts'[b] = evts[b]
  /\ closes'[b] = closes[b]
  /\ broken'[b] = broken[b]
  /\ pc'[b] = pc[b]
  /\ wire'[b] = wire[b]
  /\ wq'[b] = wq[b]

\* C10: for two distinct registered connections A and B, an end of stream or a
\* transport fault on A emits a 'close' event for A and for A only; B stays
\* registered, B's unreplied list is unchanged, no 'close' event is emitted for
\* B and B's read loop is where it was.
C10_FaultClosesAOnly ==
  [][\A a \in Rids, b \in Rids :
       (a # b /\ a \in connections /\ b \in connections /\ closes[a] = 0 /\ LoopEnds(a))
         => /\ evts'[a] = Append(evts[a], [ev |-> "close"])
            /\ Untouched(b)
    ]_vars

\* The part of C10 about B holds of every way A's read loop ends: nothing of
\* another connection changes in that step.
IsolationOfOthers ==
  [][\A a \in Rids, b \in Rids : (a # b /\ LoopEnds(a)) => Untouched(b)]_vars

\* ------------------------------------------------------------ C11
\* c is torn down: transport closed, out of the registry and of the unreplied
\* map, a 'close' event emitted
TornDown(c) ==
  /\ c \notin connections
  /\ c \notin DOMAIN unreplied
  /\ closes[c] >= 1
  /\ Emitted(c, "close") # {}

\* C11: teardown on every loop exit.  Once the read loop of an authenticated
\* connection has ended, by end of stream or by a transport error of any class,
\* the connection is torn down: its transport is closed, it is in neither the
\* registry nor the unreplied map and a 'close' event was emitted for it.
C11_TeardownOnLoopExit == \A c \in Rids : pc[c] = "exited" => TornDown(c)

\* The part of C11 the code keeps: when handleConnection returns after an end
\* of stream or a read that failed with BadResource, the connection is torn
\* down, unless an error of a 'close' listener came out of emit.
TeardownOnRecognizedExit ==
  [][\A c \in Rids :
       (pc[c] \in {"loop", "closing"} /\ pc'[c] = "exited" /\ ~broken'[c]
          /\ [ev |-> "close", rid |-> c] \notin threw')
         => TornDown(c)'
    ]_vars

\* ------------------------------------------------------------ C12
\* C12: closeConnection is idempotent.  A call closeConnection(c), by the
\* consumer, by the read loop at its end or by its catch, with c not in the
\* registry closes no transport, emits no event and changes nothing of the
\* server's state; and
\* however the consumer's calls and the loop's own teardown interleave, the
\* transport of c is closed at most once and at most one 'close' event is
\* emitted for c.
C12_CloseIdempotent ==
  [][\A c \in Rids :
       /\ (CloseConnection(c) /\ c \notin connections)
            => UNCHANGED <<emitter, listening, timer, connections, unreplied, order, pc,
                           buffer, authMessage, closes, broken, wire, wq, evts, ctl, threw,
                           ret, uncaught, first>>
       /\ (LoopEnds(c) /\ c \notin connections)
            => UNCHANGED <<emitter, listening, timer, connections, unreplied, order, buffer,
                           authMessage, closes, wire, wq, evts, ctl, threw, ret, uncaught,
                           first>>
       /\ (Catch(c) /\ c \notin connections)
            => UNCHANGED <<emitter, listening, timer, connections, unreplied, order, buffer,
                           authMessage, closes, wire, wq, evts, ctl, threw, ret, uncaught,
                           first>>
       /\ closes'[c] <= 1
       /\ Cardinality(Emitted(c, "close"))' <= 1
    ]_vars

\* the consumer closed c from inside its 'request' listener and, from inside
\* the 'close' listener that call ran, called closeConnection(c) again: c is
\* closed once, and its read loop, which has yet to end and call
\* closeConnection(c) itself, is still in the iteration that dispatched the
\* request
C12_Witness ==
  \E c \in Rids :
    /\ InRequestListener(c)
    /\ Len(ctl) = 2
    /\ Running = [ev |-> "close", rid |-> c, by |-> "consumer"]
    /\ ninputs = 4
    /\ Len(evts[c]) = 3
    /\ pc[c] = "in_request"
    /\ c \notin connections
    /\ closes[c] = 1
    /\ Cardinality(Emitted(c, "close")) = 1

\* ------------------------------------------------------------ C13
\* C13: server shutdown.  destroy() closes the listener and cancels the timer
\* and touches nothing else.  From then on no connection is accepted, the timer
\* stays cancelled and never ticks, and an 'unreplied' event is emitted only by
\* a call of notifyUnreplied() the consumer makes itself and by the loops of
\* that call as they go on.  Registered
\* connections stay registered with their unreplied lists: their read loops can
\* still read a request frame, every request frame the body of a loop runs
\* with is dispatched as a 'request' event, and reply to them still issues
\* its write.
C13_Shutdown ==
  [][ /\ Destroy
          => /\ ~listening' /\ ~timer'
             /\ UNCHANGED <<emitter, connections, unreplied, order, pc, buffer, authMessage,
                            closes, broken, wire, wq, evts, ctl, threw, ret, uncaught, first>>
      /\ ~listening
          => /\ ~listening' /\ ~timer'
             /\ ~SweeperTick
             /\ \A c \in Rids :
                  /\ pc[c] = "none" => pc'[c] = "none"
                  /\ Emitted(c, "unreplied")' # Emitted(c, "unreplied")
                       => NotifyUnreplied \/ NotifyNext
                  /\ (c \in connections /\ pc[c] = "loop" /\ closes[c] = 0 /\ ~broken[c]
                        /\ ctl = Idle /\ ninputs < MaxInputs)
                       => \A f \in LoopFrames : ENABLED ReadDone(c, ClientFrame(f), 0)
                  /\ (pc[c] = "body" /\ ctl = Idle) => ENABLED LoopBody(c)
                  /\ (c \in connections /\ ninputs < MaxInputs)
                       => ENABLED ReplyCall(c, 7, <<111, 107>>)
                  /\ \A f \in LoopFrames :
                       (Handles(c, ClientFrame(f)) /\ f.type = SERVERDATA_EXECCOMMAND)
                         => evts'[c] = Append(evts[c], RequestOf(f))
                  /\ (ReplyCall(c, 7, <<111, 107>>) /\ c \in connections)
                       => ret' = "pending" /\ Len(wq'[c]) = Len(wq[c]) + 1
    ]_vars

\* destroy() was called; a connection is still registered and open, a request
\* pending on it and the write of a reply to it under way
C13_Witness ==
  /\ ~listening
  /\ ~timer
  /\ \E c \in connections :
       /\ pc[c] = "loop"
       /\ closes[c] = 0
       /\ unreplied[c] # <<>>
       /\ wq[c] # <<>>
       /\ Head(wq[c]).kind = "reply"

\* ------------------------------------------------------------ C14
\* the messages of the 'request' events emitted for c, in the order emitted
RequestMessages(c) ==
  LET reqs == SelectSeq(evts[c], LAMBDA e : e.ev = "request")
  IN [k \in 1..Len(reqs) |-> reqs[k].message]

\* a is b with some elements left out, the order kept
RECURSIVE IsSubseq(_, _)
IsSubseq(a, b) ==
  IF a = <<>> THEN TRUE
  ELSE IF b = <<>> THEN FALSE
  ELSE IF Head(a) = Head(b) THEN IsSubseq(Tail(a), Tail(b))
  ELSE IsSubseq(a, Tail(b))

\* C14: per-connection ordering.  A read of the loop completes only when the
\* body has run with the chunk of the read before, and dispatches nothing
\* itself; the body run with an EXEC_COMMAND frame emits its 'request' event,
\* so before a later frame of the same connection is read; whatever a body
\* dispatches comes after the events of the reads before it; and the
\* unreplied list of a connection holds its requests in the order their
\* events were emitted (it is that sequence with some messages left out),
\* whatever other connections, replies, timer ticks and calls of the consumer
\* come in between.
C14_ArrivalOrder ==
  [][\A c \in Rids :
       /\ \A chunk \in LoopChunks :
            Reads(c, chunk)
              => /\ buffer[c] = <<>>
                 /\ buffer'[c] = chunk
                 /\ evts' = evts
                 /\ unreplied' = unreplied
       /\ \A f \in LoopFrames :
            (Handles(c, ClientFrame(f)) /\ f.type = SERVERDATA_EXECCOMMAND)
              => /\ RequestMessages(c)' = Append(RequestMessages(c), Decoded(f))
                 /\ buffer'[c] = <<>>
       /\ IsPrefix(RequestMessages(c), RequestMessages(c)')
       /\ c \in DOMAIN unreplied' => IsSubseq(unreplied'[c], RequestMessages(c)')
    ]_vars

\* requests with ids 7 and -1 arrived on c in this order and both are pending,
\* in this order
C14_Witness ==
  \E c \in connections :
    /\ Len(RequestMessages(c)) = 2
    /\ RequestMessages(c)[1].id = 7
    /\ RequestMessages(c)[2].id = -1
    /\ unreplied[c] = RequestMessages(c)

\* ------------------------------------------------------------ C15
\* C15: per-connection write serialization.  At most one conn.write is under
\* way on a transport at any time, echo writes of the read loop and writes of
\* reply taken together.
C15_OneWriteInProgress == \A c \in Rids : Len(wq[c]) <= 1

\* ------------------------------------------------------------ C16
\* the entries of list with id i
WithId(list, i) == {k \in 1..Len(list) : list[k].id = i}

\* C16: pending requests are keyed by request id within a connection.  In
\* every reachable state the unreplied list of a connection holds at most one
\* entry for each request id.
C16_OneEntryPerId ==
  \A c \in DOMAIN unreplied, i \in Ids : Cardinality(WithId(unreplied[c], i)) <= 1

\* The part of C16 the code keeps: the lists of two connections are
\* independent.  A reply that completes on c removes nothing from the list of
\* another connection d, an entry with the same id included.
PendingScopedToConnection ==
  [][\A c \in Rids, d \in Rids :
       (c # d /\ ReplySettles(c) /\ d \in DOMAIN unreplied)
         => d \in DOMAIN unreplied' /\ unreplied'[d] = unreplied[d]
    ]_vars

\* ------------------------------------------------------------ C17
\* the messages of the 'unreplied' events this step emits for c
NewlyReported(c) ==
  {evts'[c][k].message : k \in {j \in (Len(evts[c]) + 1)..Len(evts'[c]) : evts'[c][j].ev = "unreplied"}}

\* C17: reply from inside the request handler.  A reply(c, m.id, body) called
\* while a listener of the 'request' event of m runs only issues its write;
\* while such a listener runs no write settles and c's list changes only by a
\* teardown of c; the listeners end in a step that records m at the end of the
\* list of a registered c, or, when an error of theirs came out of emit, in
\* one that records nothing and leaves the loop, after which nothing is
\* recorded for c any more: the catch drops the error, or, for a BadResource,
\* tears c down.  So no removal step of that reply comes before the
\* recording, and once the reply's write has resolved no entry with the id of
\* m is in c's list.  (With an emitter that defers, m is recorded in the step
\* that emits its event, before any listener runs.)  An 'unreplied' event is
\* emitted only for a message that is in the list at that time, or was when
\* the teardown of c, called by a listener of the sweep that reports it,
\* discarded the list.
C17_ReplyInsideHandler ==
  [][\A c \in Rids :
       /\ \A body \in ReplyBodies :
            (InRequestListener(c) /\ c \in connections /\ ReplyCall(c, ctl[1].message.id, body))
              => /\ ctl' = ctl
                 /\ unreplied' = unreplied
                 /\ wire' = wire
                 /\ Len(wq'[c]) = Len(wq[c]) + 1
                 /\ wq'[c][Len(wq'[c])].kind = "reply"
                 /\ wq'[c][Len(wq'[c])].reqId = ctl[1].message.id
       /\ (InRequestListener(c) /\ ctl' # Idle)
            => /\ wire'[c] = wire[c]
               /\ ~ReplySettles(c)
               /\ InRequestListener(c)'
               /\ c \in DOMAIN unreplied
                    => \/ c \in DOMAIN unreplied' /\ unreplied'[c] = unreplied[c]
                       \/ Teardown(c)
       /\ (InRequestListener(c) /\ ctl' = Idle)
            => /\ ctl = <<ctl[1]>>
               /\ wire' = wire
               /\ wq' = wq
               /\ c \in DOMAIN unreplied
                    => /\ c \in DOMAIN unreplied'
                       /\ unreplied'[c] = IF NoThrow THEN Append(unreplied[c], ctl[1].message)
                                                     ELSE unreplied[c]
               /\ ~NoThrow => \E e \in ErrorClasses : pc'[c] = thrown(e)
       /\ (\E e \in ErrorClasses : pc[c] = thrown(e))
            => /\ \/ pc'[c] = pc[c]
                  \/ Catch(c) /\ pc'[c] \in {"closing", "exited"}
               /\ (c \in DOMAIN unreplied /\ c \in DOMAIN unreplied')
                    => Len(unreplied'[c]) <= Len(unreplied[c])
       /\ (pc[c] # "in_request" /\ c \in DOMAIN unreplied /\ c \in DOMAIN unreplied'
             /\ Len(unreplied'[c]) > Len(unreplied[c]))
            => ~Calls /\ pc[c] = "body"
       /\ \A f \in LoopFrames :
            (~Calls /\ Handles(c, ClientFrame(f)) /\ f.type = SERVERDATA_EXECCOMMAND
               /\ c \in DOMAIN unreplied)
              => unreplied'[c] = Append(unreplied[c], Decoded(f))
       /\ (ReplyResolves(c) /\ c \in DOMAIN unreplied')
            => ~HasId(unreplied'[c], Head(wq[c]).reqId)
       /\ \A m \in NewlyReported(c) :
            \/ c \in DOMAIN unreplied /\ \E k \in 1..Len(unreplied[c]) : unreplied[c][k] = m
            \/ /\ c \notin connections
               /\ Emitted(c, "close") # {}
               /\ NotifyNext
               /\ Running.rid = c
               /\ Running.todo # <<>>
               /\ m = Head(Running.todo)
    ]_vars

\* the listener of the request with id 7 on c is running and has called
\* reply(c, 7, ..): the write is issued (after the request's event, the latest
\* of c) and the message is not yet recorded
C17_Witness ==
  \E c \in connections :
    /\ InRequestListener(c)
    /\ ctl[1].message.id = 7
    /\ evts[c][Len(evts[c])] = [ev |-> "request", message |-> ctl[1].message]
    /\ ~HasId(unreplied[c], 7)
    /\ wq[c] # <<>>
    /\ wq[c][Len(wq[c])].kind = "reply"
    /\ wq[c][Len(wq[c])].reqId = 7
    /\ wq[c][Len(wq[c])].at = Len(evts[c])

\* ------------------------------------------------------------ C18
\* C18: a reply clears only requests received before it was issued.  When the
\* write of a reply(c, i, ..) resolves, every request with id i whose event
\* was emitted on c after that reply was called is still in c's unreplied
\* list.
C18_ReplyClearsOnlyEarlier ==
  [][\A c \in Rids :
       (ReplySettledOk(c) /\ c \in DOMAIN unreplied')
         => LET w == Head(wq[c])
                later == {k \in Requests(c, w.reqId) : k > w.at}
            IN Cardinality(WithId(unreplied'[c], w.reqId)) >= Cardinality(later)
    ]_vars

\* ------------------------------------------------------------ C19
\* C19: while a listener of the 'connection' event of c runs, c is in the
\* registry and has an empty unreplied list.
C19_RegisteredAtConnectionEvent ==
  \A c \in Rids :
    InConnectionListener(c)
      => /\ c \in connections
         /\ c \in DOMAIN unreplied
         /\ unreplied[c] = <<>>

\* What the code does instead with an emitter that calls: a reply(c, ..)
\* called by a 'connection' listener of c fails with 'Connection not found', a
\* closeConnection(c) called by it does nothing, and c is registered when the
\* listeners have returned.
ConnectionListenerFindsNothing ==
  [][\A c \in Rids :
       InConnectionListener(c)
         => /\ c \notin connections
            /\ \A i \in Ids, body \in ReplyBodies :
                 ReplyCall(c, i, body) => ret' = "Connection not found" /\ wq' = wq
            /\ CloseConnection(c) => UNCHANGED <<connections, unreplied, closes, evts, ctl>>
            /\ (ctl' = Idle /\ NoThrow)
                 => c \in connections' /\ c \in DOMAIN unreplied' /\ closes'[c] = 0
    ]_vars

CloseCutShort(c) == [ev |-> "close", rid |-> c] \in threw

\* the registry and the unreplied map agree on every connection whose
\* closeConnection, if it ran, ran to its end, and such a connection has no
\* unreplied list once its transport was closed
ConsistentUnlessCutShort ==
  ctl = Idle
    => \A c \in Rids :
         ~CloseCutShort(c)
           => /\ (c \in connections) = (c \in DOMAIN unreplied)
              /\ closes[c] > 0 => c \notin DOMAIN unreplied

\* only the registration of lines 178-179 gives a connection an unreplied
\* list: no write of a reply that resolves, before or after a teardown,
\* creates one
NoEntryRecreated ==
  [][\A c \in Rids :
       (c \notin DOMAIN unreplied /\ c \in DOMAIN unreplied')
         => /\ pc[c] \in {"auth_ok", "in_connection"}
            /\ pc'[c] = "loop"
            /\ c \in connections'
            /\ unreplied'[c] = <<>>
    ]_vars

====
